---- MODULE Spec2Model ----
\* Model of the cosmetic formulation service: the FormulationEngine of
\* src/app/logic.py, the DatabaseManager of src/app/database.py, the pydantic
\* records of src/app/models.py and the add-ingredient route of src/app/main.py.
\*
\* Numbers.  The program computes concentrations as Python floats.  The model
\* holds them as fixed-point integers: Scale units make 1.0 (one percent), so
\* 0.01 is H(1) and 100.0 is H(10000).  A product with 0.8 or 0.5 and a
\* midpoint are computed on these integers and truncated to the unit.
\* cost_per_kg is held in tenths, a cost in hundredths, a pH and a stability
\* score in tenths.
\* None (an unset Optional field) is the value None below.
EXTENDS Integers, Sequences, FiniteSets, TLC

VARIABLES
    ingredients,        \* DatabaseManager.ingredients: the dict, in insertion order
    templates,          \* DatabaseManager.templates: the dict, in insertion order
    ingredients_file,   \* the contents of ingredients.json
    ingredients_file_status, \* whether ingredients.json exists and loads
    saves,              \* the _save_ingredients coroutines in flight
    uuids,              \* how many uuid4 values have been drawn
    op,                 \* the last request served and its response
    calls               \* the generate_formulation coroutines in flight

vars == <<ingredients, templates, ingredients_file, ingredients_file_status,
          saves, uuids, op, calls>>

----------------------------------------------------------------------------
\* Values

Scale == 1000

H(n) == n * (Scale \div 100)

None == -1

\* Python truthiness of an Optional[float]: None and 0.0 are falsy.
Truthy(x) == x # None /\ x # 0

\* Python's `x or d`
Or(x, d) == IF Truthy(x) THEN x ELSE d

Min(a, b) == IF a <= b THEN a ELSE b

Max(a, b) == IF a >= b THEN a ELSE b

\* x * (n/10) on floats, truncated to the unit
Times(x, n) == (x * n) \div 10

Range(s) == {s[i] : i \in DOMAIN s}

RECURSIVE SumConc(_)
\* sum(f.concentration for f in formulation)
SumConc(formulation) ==
    IF formulation = <<>> THEN 0
    ELSE Head(formulation).concentration + SumConc(Tail(formulation))

----------------------------------------------------------------------------
\* models.py

ProductType == {"cream", "lotion", "serum", "cleanser", "toner", "mask",
                "sunscreen", "shampoo", "conditioner"}

\* The member names of the enumeration, each with its value.
IngredientFunctionMembers ==
    [EMULSIFIER |-> "emulsifier", MOISTURISER |-> "moisturiser",
     ACTIVE |-> "active", PRESERVATIVE |-> "preservative",
     THICKENER |-> "thickener", ANTIOXIDANT |-> "antioxidant",
     SURFACTANT |-> "surfactant", FRAGRANCE |-> "fragrance",
     COLORANT |-> "colorant", pH_ADJUSTER |-> "ph_adjuster",
     SOLVENT |-> "solvent"]

IngredientFunction == Range(IngredientFunctionMembers)

\* Strings the program inspects character by character (inci_name) are
\* sequences of one-character strings.
Upper == <<"A", "C", "G", "H", "P", "R", "S">>

LowerOf == <<"a", "c", "g", "h", "p", "r", "s">>

\* str.lower() on one character
LowerChar(c) ==
    IF \E i \in DOMAIN Upper : Upper[i] = c
    THEN LowerOf[CHOOSE i \in DOMAIN Upper : Upper[i] = c]
    ELSE c

\* str.lower()
lower(s) == [i \in DOMAIN s |-> LowerChar(s[i])]

RECURSIVE lstrip(_)
lstrip(s) == IF s # <<>> /\ Head(s) = " " THEN lstrip(Tail(s)) ELSE s

RECURSIVE rstrip(_)
rstrip(s) ==
    IF s # <<>> /\ s[Len(s)] = " " THEN rstrip(SubSeq(s, 1, Len(s) - 1)) ELSE s

\* str.strip(), applied by a model with str_strip_whitespace=True
strip(s) == rstrip(lstrip(s))

\* Field(None, ge=0, le=100)
BoundOk(v) == v = None \/ (v >= 0 /\ v <= H(10000))

\* Ingredient.validate_max_concentration(v, values): TRUE when it returns v,
\* FALSE when it raises.  values holds the fields validated before this one.
validate_max_concentration(v, values) ==
    ~(/\ v # None
      /\ "min_concentration" \in DOMAIN values
      /\ values.min_concentration # None
      /\ v < values.min_concentration)

\* TRUE when the Ingredient constructor accepts the fields d.  The fields are
\* validated in declaration order, so when max_concentration is validated
\* values holds id, name, inci_name, cas_number, function and category only.
IngredientAccepts(id, d) ==
    /\ BoundOk(d.max_concentration)
    /\ validate_max_concentration(d.max_concentration,
            [id |-> id, name |-> d.name, inci_name |-> strip(d.inci_name),
             function |-> d.function])
    /\ BoundOk(d.min_concentration)

\* Ingredient(id=..., **fields): the record the constructor returns.  The
\* string fields are stripped (model_config str_strip_whitespace=True).
Ingredient(id, d) ==
    [id |-> id, name |-> d.name, inci_name |-> strip(d.inci_name),
     function |-> d.function,
     max_concentration |-> d.max_concentration,
     min_concentration |-> d.min_concentration,
     prohibited_in_eu |-> d.prohibited_in_eu,
     restricted_in_eu |-> d.restricted_in_eu,
     cost_per_kg |-> d.cost_per_kg,
     natural_origin |-> d.natural_origin]

\* FormulationIngredient: concentration is Field(..., ge=0, le=100)
FormulationIngredientAccepts(concentration) ==
    concentration >= 0 /\ concentration <= H(10000)

FormulationIngredient(ingredient, concentration) ==
    [ingredient_id |-> ingredient.id, name |-> ingredient.name,
     inci_name |-> ingredient.inci_name, concentration |-> concentration,
     function |-> ingredient.function]

----------------------------------------------------------------------------
\* database.py

NoIngredient == [id |-> "<None>"]

Found(x) == x.id # "<None>"

Chars_Aqua == <<"A", "q", "u", "a">>

Chars_Glycerin == <<"G", "l", "y", "c", "e", "r", "i", "n">>

Chars_CetylAlcohol == <<"C", "e", "t", "y", "l", " ", "A", "l", "c", "o", "h", "o", "l">>

Chars_Phenoxyethanol == <<"P", "h", "e", "n", "o", "x", "y", "e", "t", "h", "a", "n", "o", "l">>

Chars_SodiumHyaluronate == <<"S", "o", "d", "i", "u", "m", " ", "H", "y", "a", "l", "u", "r", "o", "n", "a", "t", "e">>

Chars_AscorbicAcid == <<"A", "s", "c", "o", "r", "b", "i", "c", " ", "A", "c", "i", "d">>

\* DatabaseManager._create_default_ingredients
default_ingredients ==
    << [id |-> "water", name |-> "Purified Water", inci_name |-> Chars_Aqua,
        function |-> "solvent",
        max_concentration |-> H(9500), min_concentration |-> H(1000),
        prohibited_in_eu |-> FALSE, restricted_in_eu |-> FALSE,
        cost_per_kg |-> 5, natural_origin |-> TRUE],
       [id |-> "glycerin", name |-> "Glycerin", inci_name |-> Chars_Glycerin,
        function |-> "moisturiser",
        max_concentration |-> H(1000), min_concentration |-> H(50),
        prohibited_in_eu |-> FALSE, restricted_in_eu |-> FALSE,
        cost_per_kg |-> 25, natural_origin |-> TRUE],
       [id |-> "cetyl_alcohol", name |-> "Cetyl Alcohol",
        inci_name |-> Chars_CetylAlcohol, function |-> "emulsifier",
        max_concentration |-> H(500), min_concentration |-> H(50),
        prohibited_in_eu |-> FALSE, restricted_in_eu |-> FALSE,
        cost_per_kg |-> 42, natural_origin |-> TRUE],
       [id |-> "phenoxyethanol", name |-> "Phenoxyethanol",
        inci_name |-> Chars_Phenoxyethanol, function |-> "preservative",
        max_concentration |-> H(100), min_concentration |-> H(10),
        prohibited_in_eu |-> FALSE, restricted_in_eu |-> TRUE,
        cost_per_kg |-> 125, natural_origin |-> FALSE],
       [id |-> "hyaluronic_acid", name |-> "Hyaluronic Acid",
        inci_name |-> Chars_SodiumHyaluronate, function |-> "active",
        max_concentration |-> H(200), min_concentration |-> H(1),
        prohibited_in_eu |-> FALSE, restricted_in_eu |-> FALSE,
        cost_per_kg |-> 3500, natural_origin |-> TRUE],
       [id |-> "vitamin_c", name |-> "Vitamin C",
        inci_name |-> Chars_AscorbicAcid, function |-> "antioxidant",
        max_concentration |-> H(2000), min_concentration |-> H(10),
        prohibited_in_eu |-> FALSE, restricted_in_eu |-> FALSE,
        cost_per_kg |-> 450, natural_origin |-> FALSE] >>

\* DatabaseManager._create_default_templates
default_templates ==
    << [id |-> "basic_cream", product_type |-> "cream",
        base_ingredients |->
          << [ingredient_id |-> "water", concentration |-> H(6500)],
             [ingredient_id |-> "glycerin", concentration |-> H(500)],
             [ingredient_id |-> "cetyl_alcohol", concentration |-> H(300)],
             [ingredient_id |-> "phenoxyethanol", concentration |-> H(50)] >>],
       [id |-> "anti_aging_serum", product_type |-> "serum",
        base_ingredients |->
          << [ingredient_id |-> "water", concentration |-> H(8000)],
             [ingredient_id |-> "glycerin", concentration |-> H(1000)],
             [ingredient_id |-> "phenoxyethanol", concentration |-> H(30)] >>] >>

\* DatabaseManager.get_ingredient_by_id: self.ingredients.get(ingredient_id)
get_ingredient_by_id(db, ingredient_id) ==
    IF \E i \in DOMAIN db : db[i].id = ingredient_id
    THEN db[CHOOSE i \in DOMAIN db : db[i].id = ingredient_id]
    ELSE NoIngredient

\* DatabaseManager.get_templates(product_type)
get_templates(tpls, product_type) ==
    SelectSeq(tpls, LAMBDA t : t.product_type = product_type)

----------------------------------------------------------------------------
\* logic.py: FormulationEngine

\* A faulty table that does not list vitamin_c under retinol.
compatibility_matrix_lenient ==
    [vitamin_c |-> [incompatible |-> <<"niacinamide">>,
                    synergistic |-> <<"vitamin_e">>],
     retinol |-> [incompatible |-> <<"aha_bha">>,
                  synergistic |-> <<"hyaluronic_acid">>],
     niacinamide |-> [incompatible |-> <<"vitamin_c">>,
                      synergistic |-> <<"hyaluronic_acid">>]]

\* FormulationEngine.compatibility_matrix
compatibility_matrix ==
    [vitamin_c |-> [incompatible |-> <<"niacinamide">>,
                    synergistic |-> <<"vitamin_e">>],
     retinol |-> [incompatible |-> <<"vitamin_c", "aha_bha">>,
                  synergistic |-> <<"hyaluronic_acid">>],
     niacinamide |-> [incompatible |-> <<"vitamin_c">>,
                      synergistic |-> <<"hyaluronic_acid">>]]

\* request.target_properties.get("performance_priority", False), as a truth
\* value.  target_properties is held as the set of its keys; every key
\* present carries a truthy value.
performance_priority(request) ==
    "performance_priority" \in request.target_properties

\* A faulty policy whose default branch returns the midpoint without
\* holding it to the capped maximum.
optimal_for_function_midpoint(ingredient, request, min_conc, max_conc) ==
    CASE ingredient.function = IngredientFunctionMembers.ACTIVE ->
           IF performance_priority(request)
           THEN Min(max_conc, Times(max_conc, 8))
           ELSE Min(max_conc, Times(max_conc, 5))
      [] ingredient.function = IngredientFunctionMembers.PRESERVATIVE ->
           Max(min_conc, Min(max_conc, H(50)))
      [] ingredient.function = IngredientFunctionMembers.EMULSIFIER ->
           IF request.product_type = "cream" THEN Min(max_conc, H(300))
           ELSE IF request.product_type = "lotion" THEN Min(max_conc, H(200))
           ELSE Min(max_conc, H(100))
      [] OTHER -> (min_conc + max_conc) \div 2

\* Lines 164-185: the function-based policy, given the two limits.
optimal_for_function(ingredient, request, min_conc, max_conc) ==
    CASE ingredient.function = IngredientFunctionMembers.ACTIVE ->
           IF performance_priority(request)
           THEN Min(max_conc, Times(max_conc, 8))
           ELSE Min(max_conc, Times(max_conc, 5))
      [] ingredient.function = IngredientFunctionMembers.PRESERVATIVE ->
           Max(min_conc, Min(max_conc, H(50)))
      [] ingredient.function = IngredientFunctionMembers.EMULSIFIER ->
           IF request.product_type = "cream" THEN Min(max_conc, H(300))
           ELSE IF request.product_type = "lotion" THEN Min(max_conc, H(200))
           ELSE Min(max_conc, H(100))
      [] OTHER -> Min(max_conc, (min_conc + max_conc) \div 2)

\* FormulationEngine._calculate_optimal_concentration
calculate_optimal_concentration(ingredient, request, current_total) ==
    LET min_conc == Or(ingredient.min_concentration, H(1))
        max_conc == Or(ingredient.max_concentration, H(500))
        remaining == H(10000) - current_total
    IN  optimal_for_function(ingredient, request, min_conc,
                             Min(max_conc, Times(remaining, 8)))

\* The member names the function_priorities literal of
\* _score_ingredient_for_request looks up on IngredientFunction, with the
\* priority each is given (in units of ScoreUnit).
function_priorities ==
    << [member |-> "ACTIVE", priority |-> 10],
       [member |-> "MOISTURIZER", priority |-> 8],
       [member |-> "ANTIOXIDANT", priority |-> 6],
       [member |-> "THICKENER", priority |-> 4],
       [member |-> "FRAGRANCE", priority |-> 2] >>

\* One unit of score is 1/ScoreUnit, so that every product of the multipliers
\* 1.5, 1.3, 0.7, 1.4 is exact.
ScoreUnit == 1000000

\* function_priorities.get(ingredient.function, 1.0)
base_priority(function) ==
    IF \E i \in DOMAIN function_priorities :
          IngredientFunctionMembers[function_priorities[i].member] = function
    THEN LET i == CHOOSE j \in DOMAIN function_priorities :
                    IngredientFunctionMembers[function_priorities[j].member] = function
         IN  function_priorities[i].priority * ScoreUnit
    ELSE ScoreUnit

\* `word in text` for the strings the scorer searches: the lower-cased
\* ingredient name and the ingredient id.
Contains(word, text) ==
    \/ word = "retinol" /\ text \in {"Retinol", "retinol"}
    \/ word = "peptide" /\ text \in {"Copper Peptide"}
    \/ word = "vitamin_c" /\ text \in {"vitamin_c"}

\* Lines 261-287 of _score_ingredient_for_request: the multipliers.
score_multipliers(base_score, ingredient, request, used_functions) ==
    LET s1 == IF ingredient.function \notin used_functions
              THEN (base_score * 15) \div 10 ELSE base_score
        s2 == IF request.natural_preference /\ ingredient.natural_origin
              THEN (s1 * 13) \div 10 ELSE s1
        s3 == IF /\ Truthy(request.max_cost_per_kg)
                 /\ Truthy(ingredient.cost_per_kg)
                 /\ ingredient.cost_per_kg * 10 > request.max_cost_per_kg
              THEN (s2 * 7) \div 10 ELSE s2
        s4 == IF /\ "anti_aging" \in request.target_properties
                 /\ ingredient.function = IngredientFunctionMembers.ACTIVE
                 /\ (Contains("peptide", ingredient.name)
                     \/ Contains("retinol", ingredient.name))
              THEN (s3 * 15) \div 10 ELSE s3
        s5 == IF /\ "moisturizing" \in request.target_properties
                 /\ ingredient.function = IngredientFunctionMembers["MOISTURIZER"]
              THEN (s4 * 14) \div 10 ELSE s4
    IN  IF /\ "brightening" \in request.target_properties
           /\ Contains("vitamin_c", ingredient.id)
        THEN (s5 * 14) \div 10 ELSE s5

\* FormulationEngine._score_ingredient_for_request.  Building the
\* function_priorities literal reads each member off the IngredientFunction
\* enumeration; a name the enumeration does not define raises AttributeError
\* before anything is scored; so does the MOISTURIZER of line 281, which is
\* read when the request targets "moisturizing".
score_ingredient_for_request(ingredient, request, used_functions) ==
    IF \/ \E i \in DOMAIN function_priorities :
             function_priorities[i].member \notin DOMAIN IngredientFunctionMembers
       \/ /\ "moisturizing" \in request.target_properties
          /\ "MOISTURIZER" \notin DOMAIN IngredientFunctionMembers
    THEN [raised |-> "AttributeError", score |-> 0]
    ELSE [raised |-> "",
          score |-> score_multipliers(base_priority(ingredient.function),
                                      ingredient, request, used_functions)]

RECURSIVE insert_by_score(_, _)
\* Insert x into a list held in descending score order, after every entry
\* whose score is at least x's: list.sort(reverse=True) is stable.
insert_by_score(x, sorted) ==
    IF sorted = <<>> THEN <<x>>
    ELSE IF Head(sorted).score >= x.score
         THEN <<Head(sorted)>> \o insert_by_score(x, Tail(sorted))
         ELSE <<x>> \o sorted

RECURSIVE sort_by_score(_, _)
\* scored_ingredients.sort(key=lambda x: x[1], reverse=True)
sort_by_score(scored, sorted) ==
    IF scored = <<>> THEN sorted
    ELSE sort_by_score(Tail(scored), insert_by_score(Head(scored), sorted))

RECURSIVE score_all(_, _, _, _)
\* Lines 209-213: score every available ingredient, keep those scoring > 0.
\* The first score that raises ends the loop.
score_all(available, request, used_functions, scored) ==
    IF available = <<>> THEN [raised |-> "", scored |-> scored]
    ELSE LET r == score_ingredient_for_request(Head(available), request,
                                               used_functions)
         IN  IF r.raised # "" THEN [raised |-> r.raised, scored |-> <<>>]
             ELSE score_all(Tail(available), request, used_functions,
                      IF r.score > 0
                      THEN Append(scored, [ingredient |-> Head(available),
                                           score |-> r.score])
                      ELSE scored)

RECURSIVE select_top_unbudgeted(_, _, _, _)
\* A faulty greedy pass that admits a candidate without comparing its
\* concentration to what remains.
select_top_unbudgeted(scored, request, current_remaining, complementary) ==
    IF scored = <<>> \/ current_remaining <= H(10) THEN complementary
    ELSE LET ingredient == Head(scored).ingredient
             conc == calculate_optimal_concentration(
                         ingredient, request, H(10000) - current_remaining)
         IN  IF conc > 0
             THEN select_top_unbudgeted(Tail(scored), request,
                      current_remaining - conc,
                      Append(complementary,
                             FormulationIngredient(ingredient, conc)))
             ELSE select_top_unbudgeted(Tail(scored), request,
                      current_remaining, complementary)

RECURSIVE select_top(_, _, _, _)
\* Lines 219-237: the greedy pass over the sorted candidates.
select_top(scored, request, current_remaining, complementary) ==
    IF scored = <<>> \/ current_remaining <= H(10) THEN complementary
    ELSE LET ingredient == Head(scored).ingredient
             conc == calculate_optimal_concentration(
                         ingredient, request, H(10000) - current_remaining)
         IN  IF conc > 0 /\ conc <= current_remaining
             THEN select_top(Tail(scored), request, current_remaining - conc,
                      Append(complementary,
                             FormulationIngredient(ingredient, conc)))
             ELSE select_top(Tail(scored), request, current_remaining,
                             complementary)

\* FormulationEngine._select_complementary_ingredients
select_complementary_ingredients(db, request, current_formulation, remaining_percentage) ==
    LET used_functions == {f.function : f \in Range(current_formulation)}
        available ==
            SelectSeq(db, LAMBDA ing :
                /\ ing.id \notin Range(request.excluded_ingredients)
                /\ ing.id \notin {f.ingredient_id : f \in Range(current_formulation)})
        s == score_all(available, request, used_functions, <<>>)
    IN  IF s.raised # "" THEN [raised |-> s.raised, complementary |-> <<>>]
        ELSE [raised |-> "",
              complementary |-> select_top(sort_by_score(s.scored, <<>>),
                                           request, remaining_percentage, <<>>)]

\* round(n / d) to the nearest integer, ties to even, for d > 0
RoundDiv(n, d) ==
    LET q == n \div d
        r == n % d
    IN  IF 2 * r < d THEN q
        ELSE IF 2 * r > d THEN q + 1
        ELSE IF q % 2 = 0 THEN q ELSE q + 1

\* Lines 298 and 303: round((concentration / total) * 100.0, 2)
normalized_concentration(concentration, total) ==
    H(RoundDiv(concentration * 10000, total))

\* FormulationEngine._normalize_formulation
normalize_formulation(formulation) ==
    LET total == SumConc(formulation)
    IN  IF total = 0 THEN formulation
        ELSE [i \in DOMAIN formulation |->
                [formulation[i] EXCEPT
                   !.concentration = normalized_concentration(@, total)]]

\* A faulty _check_ingredient_compatibility: every ingredient passes.
check_ingredient_compatibility_true(ingredient_id, formulation) == TRUE

\* FormulationEngine._check_ingredient_compatibility
check_ingredient_compatibility(ingredient_id, formulation) ==
    IF ingredient_id \notin DOMAIN compatibility_matrix THEN TRUE
    ELSE LET compatibility == compatibility_matrix[ingredient_id]
             formulation_ids == {f.ingredient_id : f \in Range(formulation)}
         IN  ~ \E incompatible \in Range(compatibility.incompatible) :
                   incompatible \in formulation_ids

\* Lines 323-328 of _validate_formulation: the two clamps, max first.
clamp_to_limits(conc, db_ingredient) ==
    LET c1 == IF Truthy(db_ingredient.max_concentration)
              THEN Min(conc, db_ingredient.max_concentration) ELSE conc
    IN  IF Truthy(db_ingredient.min_concentration)
        THEN Max(c1, db_ingredient.min_concentration) ELSE c1

RECURSIVE validate_from(_, _, _, _)
\* The loop of _validate_formulation from entry i on.
validate_from(db, formulation, i, validated) ==
    IF i > Len(formulation) THEN validated
    ELSE LET ingredient == formulation[i]
             db_ingredient == get_ingredient_by_id(db, ingredient.ingredient_id)
         IN  IF ~Found(db_ingredient)
             THEN validate_from(db, formulation, i + 1, validated)
             ELSE IF check_ingredient_compatibility(ingredient.ingredient_id,
                                                   formulation)
             THEN validate_from(db, formulation, i + 1,
                     Append(validated,
                        [ingredient EXCEPT !.concentration =
                            clamp_to_limits(@, db_ingredient)]))
             ELSE validate_from(db, formulation, i + 1, validated)

\* FormulationEngine._validate_formulation
validate_formulation(db, formulation) == validate_from(db, formulation, 1, <<>>)

RECURSIVE cost_sum(_, _)
\* Lines 364-370 of _calculate_cost: the sum of concentration * cost_per_kg
\* over the entries whose ingredient is stored and has a cost (cost_per_kg is
\* held in tenths).
cost_sum(db, formulation) ==
    IF formulation = <<>> THEN 0
    ELSE LET db_ingredient == get_ingredient_by_id(db, Head(formulation).ingredient_id)
         IN  (IF Found(db_ingredient) /\ Truthy(db_ingredient.cost_per_kg)
              THEN Head(formulation).concentration * db_ingredient.cost_per_kg
              ELSE 0) + cost_sum(db, Tail(formulation))

\* FormulationEngine._calculate_cost, in hundredths; None when nothing costs
calculate_cost(db, formulation) ==
    LET total_cost == cost_sum(db, formulation)
    IN  IF total_cost > 0 THEN RoundDiv(total_cost, Scale * 10) ELSE None

\* ph_contributors of _predict_ph, in tenths
ph_contributors ==
    [water |-> 70, glycerin |-> 70, vitamin_c |-> 35, hyaluronic_acid |-> 65,
     phenoxyethanol |-> 60]

RECURSIVE ph_sums(_, _, _)
\* Lines 388-393 of _predict_ph: <<weighted_ph, total_weight>>
ph_sums(formulation, weighted_ph, total_weight) ==
    IF formulation = <<>> THEN <<weighted_ph, total_weight>>
    ELSE LET f == Head(formulation)
         IN  IF f.ingredient_id \in DOMAIN ph_contributors
             THEN ph_sums(Tail(formulation),
                          weighted_ph + ph_contributors[f.ingredient_id] * f.concentration,
                          total_weight + f.concentration)
             ELSE ph_sums(Tail(formulation), weighted_ph, total_weight)

\* FormulationEngine._predict_ph, in tenths
predict_ph(formulation) ==
    LET sums == ph_sums(formulation, 0, 0)
    IN  IF sums[2] > 0 THEN RoundDiv(sums[1], sums[2]) ELSE 65

\* A faulty _predict_stability: the penalty is taken when either vitamin_c
\* or retinol is present.
predict_stability_either(formulation) ==
    LET has(function) == \E f \in Range(formulation) : f.function = function
        ingredient_ids == {f.ingredient_id : f \in Range(formulation)}
        stability_score ==
            70 + (IF has(IngredientFunctionMembers.EMULSIFIER) THEN 10 ELSE 0)
               + (IF has(IngredientFunctionMembers.PRESERVATIVE) THEN 15 ELSE 0)
               + (IF has(IngredientFunctionMembers.ANTIOXIDANT) THEN 5 ELSE 0)
               - (IF "vitamin_c" \in ingredient_ids \/ "retinol" \in ingredient_ids
                  THEN 20 ELSE 0)
    IN  Min(100, Max(0, stability_score))

\* FormulationEngine._predict_stability, in tenths
predict_stability(formulation) ==
    LET has(function) == \E f \in Range(formulation) : f.function = function
        ingredient_ids == {f.ingredient_id : f \in Range(formulation)}
        stability_score ==
            70 + (IF has(IngredientFunctionMembers.EMULSIFIER) THEN 10 ELSE 0)
               + (IF has(IngredientFunctionMembers.PRESERVATIVE) THEN 15 ELSE 0)
               + (IF has(IngredientFunctionMembers.ANTIOXIDANT) THEN 5 ELSE 0)
               - (IF "vitamin_c" \in ingredient_ids /\ "retinol" \in ingredient_ids
                  THEN 20 ELSE 0)
    IN  Min(100, Max(0, stability_score))

RECURSIVE seed_from_template(_, _, _)
\* Step 1 of generate_formulation (lines 76-89): the loop over the template's
\* base ingredients.  acc is [raised, formulation, total_percentage].
seed_from_template(db, base_ingredients, acc) ==
    IF base_ingredients = <<>> \/ acc.raised # "" THEN acc
    ELSE LET base_ing == Head(base_ingredients)
             ingredient == get_ingredient_by_id(db, base_ing.ingredient_id)
             conc == base_ing.concentration
         IN  seed_from_template(db, Tail(base_ingredients),
                IF ~Found(ingredient) THEN acc
                ELSE IF ~FormulationIngredientAccepts(conc)
                THEN [acc EXCEPT !.raised = "ValidationError"]
                ELSE [raised |-> "",
                      formulation |-> Append(acc.formulation,
                                        FormulationIngredient(ingredient, conc)),
                      total_percentage |-> acc.total_percentage + conc])

RECURSIVE add_required(_, _, _, _)
\* Step 2 of generate_formulation (lines 91-108): the loop over
\* request.required_ingredients.
add_required(db, request, required, acc) ==
    IF required = <<>> \/ acc.raised # "" THEN acc
    ELSE LET req_ing_id == Head(required)
             ingredient == get_ingredient_by_id(db, req_ing_id)
             conc == calculate_optimal_concentration(ingredient, request,
                                                     acc.total_percentage)
         IN  add_required(db, request, Tail(required),
                IF \E f \in Range(acc.formulation) : f.ingredient_id = req_ing_id
                THEN acc
                ELSE IF ~Found(ingredient) THEN acc
                ELSE IF ~(conc > 0) THEN acc
                ELSE IF ~FormulationIngredientAccepts(conc)
                THEN [acc EXCEPT !.raised = "ValidationError"]
                ELSE [raised |-> "",
                      formulation |-> Append(acc.formulation,
                                        FormulationIngredient(ingredient, conc)),
                      total_percentage |-> acc.total_percentage + conc])

\* Step 3 of generate_formulation (lines 110-116)
add_complementary(db, request, acc) ==
    IF acc.raised # "" \/ ~(acc.total_percentage < H(9900)) THEN acc
    ELSE LET c == select_complementary_ingredients(db, request, acc.formulation,
                        H(9900) - acc.total_percentage)
         IN  IF c.raised # "" THEN [acc EXCEPT !.raised = c.raised]
             ELSE [raised |-> "",
                   formulation |-> acc.formulation \o c.complementary,
                   total_percentage |-> SumConc(acc.formulation \o c.complementary)]

\* A faulty step 4: the total is left as the sum that was computed.
normalize_step_keeps_total(acc) ==
    IF acc.raised # "" \/ acc.total_percentage = H(10000) THEN acc
    ELSE [raised |-> "", formulation |-> normalize_formulation(acc.formulation),
          total_percentage |-> acc.total_percentage]

\* Step 4 of generate_formulation (lines 118-121)
normalize_step(acc) ==
    IF acc.raised # "" \/ acc.total_percentage = H(10000) THEN acc
    ELSE [raised |-> "", formulation |-> normalize_formulation(acc.formulation),
          total_percentage |-> H(10000)]

\* The response of a call that raised: the route answers 500 and no
\* FormulationResponse exists.
Raised(exception) ==
    [raised |-> exception, ingredients |-> <<>>, total_percentage |-> None,
     estimated_cost_per_kg |-> None, predicted_ph |-> None,
     stability_score |-> None, compliance_status |-> "<None>"]

\* FormulationResponse.validate_total_percentage
validate_total_percentage(v) == H(9900) <= v /\ v <= H(10000)

\* Lines 68-89 of generate_formulation: the first template of the product
\* type, if any, seeds the formulation.
seed_step(db, tpls, request) ==
    LET found == get_templates(tpls, request.product_type)
        start == [raised |-> "", formulation |-> <<>>, total_percentage |-> 0]
    IN  IF found # <<>>
        THEN seed_from_template(db, found[1].base_ingredients, start)
        ELSE start

\* Lines 123-145 of generate_formulation: step 5, the predictions and the
\* FormulationResponse.
finish_formulation(db, step4) ==
    LET formulation == validate_formulation(db, step4.formulation)
    IN  IF step4.raised # "" THEN Raised(step4.raised)
        ELSE IF ~validate_total_percentage(step4.total_percentage)
        THEN Raised("ValidationError")
        ELSE [raised |-> "", ingredients |-> formulation,
              total_percentage |-> step4.total_percentage,
              estimated_cost_per_kg |-> calculate_cost(db, formulation),
              predicted_ph |-> predict_ph(formulation),
              stability_score |-> predict_stability(formulation),
              compliance_status |-> "compliant"]

\* FormulationEngine.generate_formulation
generate_formulation(db, tpls, request) ==
    LET step1 == seed_step(db, tpls, request)
        step2 == add_required(db, request, request.required_ingredients, step1)
        step3 == add_complementary(db, request, step2)
        step4 == normalize_step(step3)
    IN  finish_formulation(db, step4)

\* A faulty prohibited_issue: the issue is recorded with severity high.
prohibited_issue_high(ingredient_id, ingredient) ==
    IF ingredient.prohibited_in_eu
    THEN << [ingredient_id |-> ingredient_id, ingredient_name |-> ingredient.name,
             issue_type |-> "prohibited", severity |-> "high"] >>
    ELSE <<>>

\* Lines 480-490 of check_compliance: what a prohibited ingredient adds.
prohibited_issue(ingredient_id, ingredient) ==
    IF ingredient.prohibited_in_eu
    THEN << [ingredient_id |-> ingredient_id, ingredient_name |-> ingredient.name,
             issue_type |-> "prohibited", severity |-> "critical"] >>
    ELSE <<>>

\* Line 493 of check_compliance: the test for a concentration violation.
exceeds_limit(ingredient, concentration) ==
    Truthy(ingredient.max_concentration)
    /\ concentration > ingredient.max_concentration

\* Lines 497-504 of check_compliance: what a concentration violation adds.
concentration_issue(ingredient_id, ingredient, concentration) ==
    IF exceeds_limit(ingredient, concentration)
    THEN << [ingredient_id |-> ingredient_id, ingredient_name |-> ingredient.name,
             issue_type |-> "concentration_limit", severity |-> "high"] >>
    ELSE <<>>

\* Lines 494-496: the violation string f"{name}: {concentration}% (max: {max}%)",
\* held as its three parts.
violation_string(ingredient, concentration) ==
    [name |-> ingredient.name, concentration |-> concentration,
     max |-> ingredient.max_concentration]

\* Lines 507-508 of check_compliance: the warning a restricted ingredient adds.
restricted_warning(ingredient) ==
    IF ingredient.restricted_in_eu THEN <<ingredient.name>> ELSE <<>>

RECURSIVE check_entries(_, _, _)
\* The loop of check_compliance (lines 472-508) over the payload's entries.
\* acc is [issues, warnings, prohibited, concentration_violations].
check_entries(db, entries, acc) ==
    IF entries = <<>> THEN acc
    ELSE LET ingredient_id == Head(entries).ingredient_id
             concentration == Head(entries).concentration
             ingredient == get_ingredient_by_id(db, ingredient_id)
         IN  check_entries(db, Tail(entries),
                IF ~Found(ingredient) THEN acc
                ELSE [issues |-> acc.issues
                                   \o prohibited_issue(ingredient_id, ingredient)
                                   \o concentration_issue(ingredient_id, ingredient,
                                                          concentration),
                      warnings |-> acc.warnings \o restricted_warning(ingredient),
                      prohibited |-> acc.prohibited \o
                          (IF ingredient.prohibited_in_eu
                           THEN <<ingredient.name>> ELSE <<>>),
                      concentration_violations |-> acc.concentration_violations \o
                          (IF exceeds_limit(ingredient, concentration)
                           THEN <<violation_string(ingredient, concentration)>>
                           ELSE <<>>)])

\* A faulty overall_status_of: a high severity counts as critical too.
overall_status_of_high(issues) ==
    IF issues # <<>>
    THEN IF \E i \in DOMAIN issues : issues[i].severity \in {"critical", "high"}
         THEN "non_compliant" ELSE "requires_review"
    ELSE "compliant"

\* Lines 510-515 of check_compliance
overall_status_of(issues) ==
    IF issues # <<>>
    THEN IF \E i \in DOMAIN issues : issues[i].severity = "critical"
         THEN "non_compliant" ELSE "requires_review"
    ELSE "compliant"

\* FormulationEngine.check_compliance
check_compliance(db, formulation_data) ==
    LET acc == check_entries(db, formulation_data,
                   [issues |-> <<>>, warnings |-> <<>>, prohibited |-> <<>>,
                    concentration_violations |-> <<>>])
        overall_status == overall_status_of(acc.issues)
    IN  [overall_status |-> overall_status,
         ukes_compliant |-> (overall_status = "compliant"),
         cpnp_ready |-> (overall_status = "compliant"),
         issues |-> acc.issues,
         warnings |-> acc.warnings,
         prohibited_ingredients |-> acc.prohibited,
         concentration_violations |-> acc.concentration_violations]

----------------------------------------------------------------------------
\* database.py: add_ingredient and the save it starts; main.py: the route

\* A faulty existing: the names are compared as they are, case included.
existing_case_sensitive(db, ingredient_data) ==
    SelectSeq(db, LAMBDA i : i.inci_name = ingredient_data.inci_name)

\* Line 318-319 of add_ingredient: the stored ingredients whose INCI name
\* equals the new one, both lower-cased.
existing(db, ingredient_data) ==
    SelectSeq(db, LAMBDA i : lower(i.inci_name) = lower(ingredient_data.inci_name))

\* str(uuid.uuid4()): the n-th identifier drawn
uuid4(n) == <<"uuid", n>>

\* The IngredientAdd payloads the clients send.
Chars_glycerin_lower == lower(Chars_Glycerin)

Chars_Retinol == <<"R", "e", "t", "i", "n", "o", "l">>

Chars_Squalane == <<"S", "q", "u", "a", "l", "a", "n", "e">>

\* The IngredientAdd payloads the clients send: one record under INCI names
\* that differ in case and surrounding blanks, and one whose
\* max_concentration is below its min_concentration.
IngredientAdds ==
    { [name |-> "Retinol", inci_name |-> n, function |-> "active",
       max_concentration |-> H(100), min_concentration |-> H(1),
       prohibited_in_eu |-> FALSE, restricted_in_eu |-> FALSE,
       cost_per_kg |-> None, natural_origin |-> FALSE] :
      n \in {Chars_glycerin_lower, Chars_Glycerin \o <<" ">>, Chars_Retinol,
             lower(Chars_Retinol), <<" ">> \o Chars_Retinol} }
    \cup
    { [name |-> "Squalane", inci_name |-> Chars_Squalane, function |-> "thickener",
       max_concentration |-> H(200), min_concentration |-> H(500),
       prohibited_in_eu |-> FALSE, restricted_in_eu |-> FALSE,
       cost_per_kg |-> 450, natural_origin |-> TRUE] }

\* How many add_ingredient calls the clients make.
MaxAdds == 3

\* The start of DatabaseManager.add_ingredient, up to its first suspension
\* (the aiofiles.open of _save_ingredients): the uuid, the duplicate check,
\* the Ingredient, the insert, and the snapshot `data` that _save_ingredients
\* takes before it opens the file.  A ValueError (pydantic's ValidationError
\* is one) ends the call, and the route of main.py answers 400.
AddIngredient(ingredient_data) ==
    /\ uuids < MaxAdds
    /\ uuids' = uuids + 1
    /\ LET ingredient_id == uuid4(uuids + 1)
       IN  IF existing(ingredients, ingredient_data) # <<>>
              \/ ~IngredientAccepts(ingredient_id, ingredient_data)
           THEN /\ op' = [name |-> "add_ingredient", request |-> ingredient_data,
                          status |-> 400]
                /\ UNCHANGED <<ingredients, ingredients_file, ingredients_file_status, saves>>
           ELSE /\ ingredients' = Append(ingredients,
                                         Ingredient(ingredient_id, ingredient_data))
                /\ saves' = saves \cup
                       {[id |-> ingredient_id, request |-> ingredient_data,
                         data |-> ingredients', pc |-> "open"]}
                /\ UNCHANGED <<ingredients_file, ingredients_file_status, op>>
    /\ UNCHANGED <<templates, calls>>

\* _save_ingredients, line 353: aiofiles.open(self.ingredients_file, 'w')
\* creates or truncates the file; an empty file is not JSON.
SaveOpen(s) ==
    /\ s.pc = "open"
    /\ ingredients_file' = <<>>
    /\ ingredients_file_status' = "unreadable"
    /\ saves' = (saves \ {s}) \cup {[s EXCEPT !.pc = "write"]}
    /\ UNCHANGED <<ingredients, templates, uuids, op, calls>>

\* _save_ingredients, line 354: the snapshot is written and the file closed;
\* add_ingredient returns the id and the route answers 200.
SaveWrite(s) ==
    /\ s.pc = "write"
    /\ ingredients_file' = s.data
    /\ ingredients_file_status' = "readable"
    /\ saves' = saves \ {s}
    /\ op' = [name |-> "add_ingredient", request |-> s.request, status |-> 200,
              id |-> s.id]
    /\ UNCHANGED <<ingredients, templates, uuids, calls>>

NoOp == [name |-> "none"]

\* The state after DatabaseManager.initialize on a first run: the defaults
\* are in memory and saved.
Init ==
    /\ ingredients = default_ingredients
    /\ templates = default_templates
    /\ ingredients_file = default_ingredients
    /\ ingredients_file_status = "readable"
    /\ saves = {}
    /\ uuids = 0
    /\ op = NoOp
    /\ calls = <<>>

Next ==
    \/ \E d \in IngredientAdds : AddIngredient(d)
    \/ \E s \in saves : SaveOpen(s)
    \/ \E s \in saves : SaveWrite(s)

Spec == Init /\ [][Next]_vars

----------------------------------------------------------------------------
\* The engine over a repository loaded from its files

Chars_Niacinamide == <<"N", "i", "a", "c", "i", "n", "a", "m", "i", "d", "e">>

Chars_Hydroquinone == <<"H", "y", "d", "r", "o", "q", "u", "i", "n", "o", "n", "e">>

Chars_LeadAcetate == <<"L", "e", "a", "d", " ", "A", "c", "e", "t", "a", "t", "e">>

Chars_Parfum == <<"P", "a", "r", "f", "u", "m">>

\* Ingredients a persisted ingredients.json may hold besides the defaults.
more_ingredients ==
    << [id |-> "retinol", name |-> "Retinol", inci_name |-> Chars_Retinol,
        function |-> "active",
        max_concentration |-> H(100), min_concentration |-> H(1),
        prohibited_in_eu |-> FALSE, restricted_in_eu |-> TRUE,
        cost_per_kg |-> 6000, natural_origin |-> FALSE],
       [id |-> "niacinamide", name |-> "Niacinamide",
        inci_name |-> Chars_Niacinamide, function |-> "active",
        max_concentration |-> H(1000), min_concentration |-> H(100),
        prohibited_in_eu |-> FALSE, restricted_in_eu |-> FALSE,
        cost_per_kg |-> 300, natural_origin |-> FALSE],
       [id |-> "hydroquinone", name |-> "Hydroquinone",
        inci_name |-> Chars_Hydroquinone, function |-> "active",
        max_concentration |-> H(200), min_concentration |-> None,
        prohibited_in_eu |-> TRUE, restricted_in_eu |-> FALSE,
        cost_per_kg |-> 800, natural_origin |-> FALSE],
       [id |-> "lead_acetate", name |-> "Lead Acetate",
        inci_name |-> Chars_LeadAcetate, function |-> "colorant",
        max_concentration |-> 0, min_concentration |-> 0,
        prohibited_in_eu |-> TRUE, restricted_in_eu |-> TRUE,
        cost_per_kg |-> None, natural_origin |-> FALSE],
       [id |-> "fragrance_oil", name |-> "Fragrance Oil",
        inci_name |-> Chars_Parfum, function |-> "fragrance",
        max_concentration |-> None, min_concentration |-> None,
        prohibited_in_eu |-> FALSE, restricted_in_eu |-> FALSE,
        cost_per_kg |-> 600, natural_origin |-> TRUE] >>

\* Templates a persisted formulary.json may hold besides the defaults: one
\* whose base concentrations sum to 100 and that lists an ingredient the
\* repository does not hold, one whose sum is above 100, and one that lists
\* an ingredient twice.
more_templates ==
    << [id |-> "simple_toner", product_type |-> "toner",
        base_ingredients |->
          << [ingredient_id |-> "water", concentration |-> H(9000)],
             [ingredient_id |-> "aloe_vera", concentration |-> H(500)],
             [ingredient_id |-> "glycerin", concentration |-> H(1000)] >>],
       [id |-> "rich_lotion", product_type |-> "lotion",
        base_ingredients |->
          << [ingredient_id |-> "water", concentration |-> H(9500)],
             [ingredient_id |-> "glycerin", concentration |-> H(1000)],
             [ingredient_id |-> "cetyl_alcohol", concentration |-> H(500)] >>],
       [id |-> "layered_mask", product_type |-> "mask",
        base_ingredients |->
          << [ingredient_id |-> "water", concentration |-> H(5000)],
             [ingredient_id |-> "water", concentration |-> H(4000)],
             [ingredient_id |-> "glycerin", concentration |-> H(1000)] >>] >>

\* The repositories the engine is run over: the default one, an extended
\* one, and one whose ingredients file holds water alone.
Repositories ==
    { [ingredients |-> default_ingredients, templates |-> default_templates],
      [ingredients |-> default_ingredients \o more_ingredients,
       templates |-> default_templates \o more_templates],
      [ingredients |-> SubSeq(default_ingredients, 1, 1),
       templates |-> default_templates] }

AllIds == [i \in DOMAIN (default_ingredients \o more_ingredients) |->
             (default_ingredients \o more_ingredients)[i].id]

\* The FormulationRequests the clients send.
Requests ==
    [product_type : {"cream", "serum", "lotion", "toner", "mask"},
     target_properties : {{}, {"performance_priority"}},
     required_ingredients : {<<>>, <<"hyaluronic_acid">>, <<"phenoxyethanol">>,
                             <<"hydroquinone">>, <<"no_such_id">>,
                             <<"vitamin_c", "niacinamide">>,
                             <<"vitamin_c", "retinol">>,
                             <<"hyaluronic_acid", "hyaluronic_acid">>},
     excluded_ingredients : {<<>>, AllIds},
     max_cost_per_kg : {None},
     natural_preference : {FALSE}]

\* The entries of a compliance payload, and the longest payload sent.
PayloadEntries ==
    [ingredient_id : {"water", "phenoxyethanol", "hydroquinone", "lead_acetate",
                      "fragrance_oil", "retinol", "no_such_id"},
     concentration : {0, H(100), H(200)}]

MaxEntries == 2

Payloads ==
    UNION {[1..n -> PayloadEntries] : n \in 0..MaxEntries}

\* The engine's coroutines never suspend (every await is on a coroutine of
\* the in-memory DatabaseManager), so the event loop serves one engine call
\* at a time: op holds the call being served until its response is sent.

\* POST /formulate
GenerateFormulation(request) ==
    /\ op = NoOp
    /\ op' = [name |-> "generate_formulation", request |-> request,
              response |-> generate_formulation(ingredients, templates, request)]
    /\ UNCHANGED <<ingredients, templates, ingredients_file, ingredients_file_status, saves, uuids, calls>>

\* POST /compliance-check
CheckCompliance(formulation_data) ==
    /\ op = NoOp
    /\ op' = [name |-> "check_compliance", request |-> formulation_data,
              response |-> check_compliance(ingredients, formulation_data)]
    /\ UNCHANGED <<ingredients, templates, ingredients_file, ingredients_file_status, saves, uuids, calls>>

\* The call of _calculate_optimal_concentration that step 2 of
\* generate_formulation makes for the first required ingredient of a request:
\* current_total is the total the template of the request left.
CalculateOptimalConcentration(ingredient, request) ==
    /\ op = NoOp
    /\ seed_step(ingredients, templates, request).raised = ""
    /\ LET current_total == seed_step(ingredients, templates, request).total_percentage
       IN  op' = [name |-> "calculate_optimal_concentration",
                  ingredient |-> ingredient, request |-> request,
                  current_total |-> current_total,
                  response |-> calculate_optimal_concentration(ingredient, request,
                                                               current_total)]
    /\ UNCHANGED <<ingredients, templates, ingredients_file, ingredients_file_status, saves, uuids, calls>>

\* The response is sent and the event loop is free for the next call.
Reply ==
    /\ op # NoOp
    /\ op' = NoOp
    /\ UNCHANGED <<ingredients, templates, ingredients_file, ingredients_file_status, saves, uuids, calls>>

InitEngine ==
    /\ \E r \in Repositories :
          /\ ingredients = r.ingredients
          /\ templates = r.templates
          /\ ingredients_file = r.ingredients
          /\ ingredients_file_status = "readable"
    /\ saves = {}
    /\ uuids = 0
    /\ op = NoOp
    /\ calls = <<>>

NextEngine ==
    \/ op = NoOp /\ \E request \in Requests : GenerateFormulation(request)
    \/ op = NoOp /\ \E formulation_data \in Payloads : CheckCompliance(formulation_data)
    \/ op = NoOp /\ \E ingredient \in Range(ingredients), request \in Requests :
                       CalculateOptimalConcentration(ingredient, request)
    \/ Reply

SpecEngine == InitEngine /\ [][NextEngine]_vars

----------------------------------------------------------------------------
\* Properties of generate_formulation

IsGenerate == op.name = "generate_formulation"

\* C1: the ingredient list generate_formulation returns, when it is not
\* empty, has concentrations that sum to 100 and that each lie in [0,100].
C1_FinishedSumsTo100 ==
    (IsGenerate /\ op.response.raised = "" /\ op.response.ingredients # <<>>)
    => /\ SumConc(op.response.ingredients) = H(10000)
       /\ \A f \in Range(op.response.ingredients) :
             f.concentration >= 0 /\ f.concentration <= H(10000)

\* C2: generate_formulation never raises: every call returns a
\* FormulationResponse.
C2_NeverRaises == IsGenerate => op.response.raised = ""

\* Scenario A of the specification: a serum with hyaluronic_acid required.
ScenarioA ==
    [product_type |-> "serum", target_properties |-> {},
     required_ingredients |-> <<"hyaluronic_acid">>,
     excluded_ingredients |-> <<>>, max_cost_per_kg |-> None,
     natural_preference |-> FALSE]

\* C8: over the default repository, scenario A returns a response that
\* holds hyaluronic_acid at a concentration above 0, whose concentrations sum
\* to 100, and that is compliant when it holds no prohibited ingredient.
C8_ScenarioA ==
    (/\ IsGenerate
     /\ ingredients = default_ingredients
     /\ templates = default_templates
     /\ op.request = ScenarioA)
    => /\ op.response.raised = ""
       /\ \E f \in Range(op.response.ingredients) :
             f.ingredient_id = "hyaluronic_acid" /\ f.concentration > 0
       /\ SumConc(op.response.ingredients) = H(10000)
       /\ (\A f \in Range(op.response.ingredients) :
              ~get_ingredient_by_id(ingredients, f.ingredient_id).prohibited_in_eu)
          => op.response.compliance_status = "compliant"

----------------------------------------------------------------------------
\* Properties of check_compliance

IsCompliance == op.name = "check_compliance"

\* The stored ingredient a payload entry names (NoIngredient when absent).
StoredOf(entry) == get_ingredient_by_id(ingredients, entry.ingredient_id)

\* The payload entries whose ingredient is stored and prohibited in the EU.
ProhibitedEntries ==
    {i \in DOMAIN op.request :
        Found(StoredOf(op.request[i])) /\ StoredOf(op.request[i]).prohibited_in_eu}

\* C3: a payload entry whose stored ingredient is prohibited in the EU makes
\* the result non_compliant, with a critical issue of type prohibited naming
\* the entry's id, and the ingredient's name among prohibited_ingredients.
C3_ProhibitedIsNonCompliant ==
    IsCompliance =>
      \A i \in ProhibitedEntries :
         /\ op.response.overall_status = "non_compliant"
         /\ \E k \in DOMAIN op.response.issues :
               /\ op.response.issues[k].severity = "critical"
               /\ op.response.issues[k].issue_type = "prohibited"
               /\ op.response.issues[k].ingredient_id = op.request[i].ingredient_id
         /\ \E k \in DOMAIN op.response.prohibited_ingredients :
               op.response.prohibited_ingredients[k] = StoredOf(op.request[i]).name

\* A prohibited ingredient that is not also restricted was checked.
C3_Witness ==
    /\ IsCompliance
    /\ \E i \in ProhibitedEntries : op.request[i].ingredient_id = "hydroquinone"
    /\ op.response.overall_status = "non_compliant"

\* The payload entries that name the stored ingredient id and lie above its
\* max_concentration, for every max that is set (0 included).
AboveMax(id) ==
    {i \in DOMAIN op.request :
        /\ op.request[i].ingredient_id = id
        /\ Found(StoredOf(op.request[i]))
        /\ StoredOf(op.request[i]).max_concentration # None
        /\ op.request[i].concentration > StoredOf(op.request[i]).max_concentration}

\* C4: each payload entry above its ingredient's max_concentration, for every
\* max that is set (0 included), has exactly one concentration_limit issue of
\* severity high and one matching violation string; the other entries have
\* none.  Per stored ingredient id: as many issues, and as many strings, as
\* entries above the max.
C4_ConcentrationLimitIssues ==
    IsCompliance =>
      \A i \in DOMAIN op.request :
         Found(StoredOf(op.request[i])) =>
            LET id == op.request[i].ingredient_id
                ing == StoredOf(op.request[i])
            IN  /\ Cardinality({k \in DOMAIN op.response.issues :
                      /\ op.response.issues[k].ingredient_id = id
                      /\ op.response.issues[k].issue_type = "concentration_limit"
                      /\ op.response.issues[k].severity = "high"})
                   = Cardinality(AboveMax(id))
                /\ Cardinality({k \in DOMAIN op.response.concentration_violations :
                      /\ op.response.concentration_violations[k].name = ing.name
                      /\ op.response.concentration_violations[k].max
                            = ing.max_concentration})
                   = Cardinality(AboveMax(id))

\* C5: overall_status is non_compliant exactly when an issue is critical,
\* requires_review exactly when there are issues and none is critical,
\* compliant exactly when there is no issue; ukes_compliant and cpnp_ready
\* are TRUE exactly when the status is compliant.
C5_OverallStatus ==
    IsCompliance =>
      LET r == op.response
          critical == \E k \in DOMAIN r.issues : r.issues[k].severity = "critical"
      IN  /\ (r.overall_status = "non_compliant") <=> critical
          /\ (r.overall_status = "requires_review") <=> (r.issues # <<>> /\ ~critical)
          /\ (r.overall_status = "compliant") <=> (r.issues = <<>>)
          /\ r.ukes_compliant <=> (r.overall_status = "compliant")
          /\ r.cpnp_ready <=> (r.overall_status = "compliant")

\* A payload with issues, none of them critical, was checked.
C5_Witness ==
    /\ IsCompliance
    /\ op.response.issues # <<>>
    /\ op.response.overall_status = "requires_review"
    /\ ~op.response.ukes_compliant

----------------------------------------------------------------------------
\* Properties of _calculate_optimal_concentration

IsCalculate == op.name = "calculate_optimal_concentration"

\* 0.8 * (100 - current_total)
BudgetCap(current_total) == Times(H(10000) - current_total, 8)

\* C6: the value returned does not exceed
\* min(ingredient.max_concentration, 0.8 * (100 - current_total)); an unset
\* max_concentration leaves the budget cap alone.
C6_NeverExceedsCap ==
    IsCalculate =>
      /\ op.response <= BudgetCap(op.current_total)
      /\ op.ingredient.max_concentration # None
            => op.response <= op.ingredient.max_concentration

\* C7: the value returned is never negative, and is 0 when the capped max
\* is at most 0.
C7_NeverNegative ==
    IsCalculate =>
      /\ op.response >= 0
      /\ Min(Or(op.ingredient.max_concentration, H(500)),
             BudgetCap(op.current_total)) <= 0
            => op.response = 0

----------------------------------------------------------------------------
\* Properties of add_ingredient

\* Two characters that are the same letter, whatever their case.
SameLetter(x, y) ==
    x = y \/ \E i \in DOMAIN Upper : {x, y} = {Upper[i], LowerOf[i]}

\* Two strings equal ignoring letter case.
EqualIgnoringCase(a, b) ==
    Len(a) = Len(b) /\ \A i \in DOMAIN a : SameLetter(a[i], b[i])

\* C9: an add_ingredient call whose INCI name equals, ignoring case, the INCI
\* name of a stored ingredient is answered with a client error and leaves
\* the ingredient collection and the ingredients file as they were.
C9_DuplicateRejected ==
    [][\A d \in IngredientAdds :
          (/\ AddIngredient(d)
           /\ \E i \in DOMAIN ingredients :
                 EqualIgnoringCase(ingredients[i].inci_name, d.inci_name))
          => /\ op' = [name |-> "add_ingredient", request |-> d, status |-> 400]
             /\ ingredients' = ingredients
             /\ ingredients_file' = ingredients_file]_vars

\* "glycerin" was offered while "Glycerin" is stored, and was rejected.
C9_Witness ==
    /\ op.name = "add_ingredient"
    /\ op.status = 400
    /\ op.request.inci_name = Chars_glycerin_lower
    /\ \E i \in DOMAIN ingredients : ingredients[i].inci_name = Chars_Glycerin
    /\ \A i \in DOMAIN ingredients : ingredients[i].inci_name # Chars_glycerin_lower

\* C10: no two stored ingredients have INCI names that are equal ignoring
\* case, in any state the concurrent add_ingredient calls can reach.
C10_NoDuplicateInciNames ==
    \A i, j \in DOMAIN ingredients :
       i # j => ~EqualIgnoringCase(ingredients[i].inci_name, ingredients[j].inci_name)

----------------------------------------------------------------------------
\* Properties of the stages of generate_formulation

\* The call has no template for its product type, requires nothing and
\* excludes every stored ingredient.
EmptyPool ==
    /\ IsGenerate
    /\ get_templates(templates, op.request.product_type) = <<>>
    /\ op.request.required_ingredients = <<>>
    /\ \A ing \in Range(ingredients) :
          ing.id \in Range(op.request.excluded_ingredients)

\* C11: with no template for the product type, nothing required and every
\* stored ingredient excluded, generate_formulation does not raise and
\* returns no entries, with total_percentage = 100.
C11_EmptyPoolReturnsNoEntries ==
    EmptyPool => /\ op.response.raised = ""
                 /\ op.response.ingredients = <<>>
                 /\ op.response.total_percentage = H(10000)

\* Such a call was served over a repository that stores ingredients.
C11_Witness ==
    /\ EmptyPool
    /\ ingredients # <<>>
    /\ op.response.ingredients = <<>>
    /\ op.response.total_percentage = H(10000)

----------------------------------------------------------------------------
\* The stages of generate_formulation, each applied on its own

\* An ingredient a persisted ingredients.json may hold whose bounds are the
\* wrong way round: the constructor accepts it (see IngredientAccepts).
inverted_ingredients ==
    << [id |-> "squalane", name |-> "Squalane", inci_name |-> Chars_Squalane,
        function |-> "thickener",
        max_concentration |-> H(200), min_concentration |-> H(500),
        prohibited_in_eu |-> FALSE, restricted_in_eu |-> FALSE,
        cost_per_kg |-> 450, natural_origin |-> TRUE] >>

\* The ingredients of the repository the stages run over.
stage_ingredients == default_ingredients \o more_ingredients \o inverted_ingredients

\* The longest list a stage is applied to.
MaxStageLen == 3

\* The concentrations of the lists _normalize_formulation is applied to: 0,
\* values with two decimals, and values with three.
NormalizeConcentrations ==
    {0, H(100), H(200), H(400), H(5000), 33333, 66667}

\* The lists _normalize_formulation is applied to: the k-th entry is the
\* k-th default ingredient.
NormalizeInputs ==
    UNION { {[k \in 1..n |-> FormulationIngredient(default_ingredients[k], c[k])] :
                c \in [1..n -> NormalizeConcentrations]} : n \in 1..MaxStageLen }

\* Step 4 of generate_formulation, line 120: the call of
\* _normalize_formulation.
NormalizeFormulation(formulation) ==
    /\ op = NoOp
    /\ op' = [name |-> "normalize_formulation", request |-> formulation,
              response |-> normalize_formulation(formulation)]
    /\ UNCHANGED <<ingredients, templates, ingredients_file, ingredients_file_status, saves, uuids, calls>>

\* The ingredients of the lists _predict_stability is applied to.
StabilityIds ==
    {"cetyl_alcohol", "phenoxyethanol", "vitamin_c", "retinol", "hyaluronic_acid"}

\* The lists _predict_stability is applied to, each entry at 1.0%.
StabilityInputs ==
    UNION { {[k \in 1..n |->
                FormulationIngredient(get_ingredient_by_id(stage_ingredients, id[k]),
                                      H(100))] :
                id \in [1..n -> StabilityIds]} : n \in 0..MaxStageLen }

\* Line 129 of generate_formulation: the call of _predict_stability.
PredictStability(formulation) ==
    /\ op = NoOp
    /\ op' = [name |-> "predict_stability", request |-> formulation,
              response |-> predict_stability(formulation)]
    /\ UNCHANGED <<ingredients, templates, ingredients_file, ingredients_file_status, saves, uuids, calls>>

\* The entries of the lists _validate_formulation and _calculate_cost are
\* applied to: stored ingredients, and ids the repository does not hold
\* (aha_bha is one the compatibility matrix names).
StageIds ==
    {"water", "retinol", "vitamin_c", "niacinamide", "lead_acetate", "squalane",
     "aha_bha"}

\* FormulationIngredient(...) for an id: the fields of the stored ingredient,
\* or those of an ingredient the repository does not hold.
StageEntry(id, concentration) ==
    IF Found(get_ingredient_by_id(stage_ingredients, id))
    THEN FormulationIngredient(get_ingredient_by_id(stage_ingredients, id),
                               concentration)
    ELSE [ingredient_id |-> id, name |-> id, inci_name |-> <<>>,
          concentration |-> concentration, function |-> "active"]

\* Every id at the low concentration, and the ingredients with a maximum
\* below the high concentration at that one too.
StageEntries ==
    {StageEntry(id, H(50)) : id \in StageIds}
    \cup {StageEntry(id, H(2000)) : id \in {"retinol", "squalane"}}

StageInputs == UNION {[1..n -> StageEntries] : n \in 0..MaxStageLen}

\* Step 5 of generate_formulation, line 124: the call of _validate_formulation.
ValidateFormulation(formulation) ==
    /\ op = NoOp
    /\ op' = [name |-> "validate_formulation", request |-> formulation,
              response |-> validate_formulation(ingredients, formulation)]
    /\ UNCHANGED <<ingredients, templates, ingredients_file, ingredients_file_status, saves, uuids, calls>>

\* Line 127 of generate_formulation: the call of _calculate_cost.
CalculateCost(formulation) ==
    /\ op = NoOp
    /\ op' = [name |-> "calculate_cost", request |-> formulation,
              response |-> calculate_cost(ingredients, formulation)]
    /\ UNCHANGED <<ingredients, templates, ingredients_file, ingredients_file_status, saves, uuids, calls>>

Chars_SodiumBenzoate == <<"S", "o", "d", "i", "u", "m", " ", "B", "e", "n", "z", "o", "a", "t", "e">>

\* A preservative whose minimum effective concentration is 3%.
potent_preservative ==
    [id |-> "sodium_benzoate", name |-> "Sodium Benzoate",
     inci_name |-> Chars_SodiumBenzoate, function |-> "preservative",
     max_concentration |-> H(1000), min_concentration |-> H(300),
     prohibited_in_eu |-> FALSE, restricted_in_eu |-> FALSE,
     cost_per_kg |-> 30, natural_origin |-> FALSE]

\* The ingredients the greedy pass is handed: one of each branch of the
\* concentration policy.
FillCandidates ==
    {ing \in Range(stage_ingredients) :
        ing.id \in {"water", "cetyl_alcohol", "phenoxyethanol",
                    "hyaluronic_acid", "squalane"}}
    \cup {potent_preservative}

\* scored_ingredients after the sort of line 216: lists of distinct
\* candidates, each with a positive score.
ScoredInputs ==
    UNION {{[i \in 1..n |-> [ingredient |-> s[i], score |-> ScoreUnit]] :
               s \in {t \in [1..n -> FillCandidates] :
                         \A i, j \in 1..n : i # j => t[i] # t[j]}} :
           n \in 0..MaxStageLen}

\* remaining_percentage: 99.0 - total_percentage for a total below 99.
RemainingInputs == {H(5), H(10), H(11), H(100), H(2550), H(9900)}

\* The requests the greedy pass runs for.
FillRequests ==
    [product_type : {"cream", "serum"},
     target_properties : {{}, {"performance_priority"}},
     required_ingredients : {<<>>},
     excluded_ingredients : {<<>>},
     max_cost_per_kg : {None},
     natural_preference : {FALSE}]

\* Lines 218-239 of _select_complementary_ingredients: the greedy pass.
SelectTop(scored, request, remaining_percentage) ==
    /\ op = NoOp
    /\ op' = [name |-> "select_top",
              request |-> [scored |-> scored, request |-> request,
                           remaining_percentage |-> remaining_percentage],
              response |-> select_top(scored, request, remaining_percentage, <<>>)]
    /\ UNCHANGED <<ingredients, templates, ingredients_file, ingredients_file_status, saves, uuids, calls>>

\* The requests candidates are scored for: every combination of the
\* properties, the preference and the cost limit the scorer reads.
ScoreRequests ==
    [product_type : {"serum"},
     target_properties : SUBSET {"anti_aging", "moisturizing", "brightening"},
     required_ingredients : {<<>>},
     excluded_ingredients : {<<>>},
     max_cost_per_kg : {None, H(100)},
     natural_preference : BOOLEAN]

\* Line 211 of _select_complementary_ingredients: the call of
\* _score_ingredient_for_request for one available ingredient.
ScoreIngredient(ingredient, request, used_functions) ==
    /\ op = NoOp
    /\ op' = [name |-> "score_ingredient_for_request",
              request |-> [ingredient |-> ingredient, request |-> request,
                           used_functions |-> used_functions],
              response |-> score_ingredient_for_request(ingredient, request,
                                                        used_functions)]
    /\ UNCHANGED <<ingredients, templates, ingredients_file, ingredients_file_status, saves, uuids, calls>>

\* Requests whose required ingredients name ids the repository does not
\* hold, for product types with and without such an id in the template.
StageRequests ==
    [product_type : {"serum", "toner"},
     target_properties : {{}},
     required_ingredients : {<<>>, <<"no_such_id", "hyaluronic_acid">>,
                             <<"hyaluronic_acid", "aha_bha">>},
     excluded_ingredients : {<<>>, AllIds \o <<"squalane">>},
     max_cost_per_kg : {None},
     natural_preference : {FALSE}]

\* The repository the stages run over.
InitStages ==
    /\ ingredients = stage_ingredients
    /\ templates = default_templates \o more_templates
    /\ ingredients_file = ingredients
    /\ ingredients_file_status = "readable"
    /\ saves = {}
    /\ uuids = 0
    /\ op = NoOp
    /\ calls = <<>>

NextStages ==
    \/ op = NoOp /\ \E formulation \in NormalizeInputs : NormalizeFormulation(formulation)
    \/ op = NoOp /\ \E formulation \in StabilityInputs : PredictStability(formulation)
    \/ op = NoOp /\ \E formulation \in StageInputs : ValidateFormulation(formulation)
    \/ op = NoOp /\ \E formulation \in StageInputs : CalculateCost(formulation)
    \/ op = NoOp /\ \E request \in StageRequests : GenerateFormulation(request)
    \/ op = NoOp /\ \E formulation_data \in Payloads : CheckCompliance(formulation_data)
    \/ op = NoOp /\ \E scored \in ScoredInputs, request \in FillRequests,
                       remaining_percentage \in RemainingInputs :
                         SelectTop(scored, request, remaining_percentage)
    \/ op = NoOp /\ \E ingredient \in Range(stage_ingredients),
                       request \in ScoreRequests,
                       used_functions \in {{}, {"active", "solvent"}} :
                         ScoreIngredient(ingredient, request, used_functions)
    \/ Reply

SpecStages == InitStages /\ [][NextStages]_vars

----------------------------------------------------------------------------
\* Properties of _normalize_formulation

IsNormalize == op.name = "normalize_formulation"

\* The concentrations of a list, in order.
Concentrations(formulation) ==
    [i \in DOMAIN formulation |-> formulation[i].concentration]

\* C12: _normalize_formulation returns a list that sums to exactly 100 with
\* every concentration as it was (whatever the number of decimals), and
\* normalizing the result of a normalization of a list with a positive total
\* changes nothing.
C12_NormalizeIdempotent ==
    IsNormalize =>
      /\ SumConc(op.request) = H(10000)
            => Concentrations(op.response) = Concentrations(op.request)
      /\ SumConc(op.request) > 0
            => normalize_formulation(op.response) = op.response

\* C13: the list _normalize_formulation returns for a list with an entry of
\* positive concentration sums to exactly 100.
C13_NormalizedSumsTo100 ==
    (IsNormalize /\ \E f \in Range(op.request) : f.concentration > 0)
    => SumConc(op.response) = H(10000)

----------------------------------------------------------------------------
\* Properties of _predict_stability

IsStability == op.name = "predict_stability"

\* The functions present in a list.
FunctionsOf(formulation) == {f.function : f \in Range(formulation)}

\* The list holds both a vitamin_c and a retinol entry.
HasUnstablePair(formulation) ==
    /\ \E f \in Range(formulation) : f.ingredient_id = "vitamin_c"
    /\ \E f \in Range(formulation) : f.ingredient_id = "retinol"

\* C14: the stability score lies in [0,10], and a list that holds both
\* vitamin_c and retinol scores exactly 2.0 less than every list with the
\* same functions present that lacks one of the two.
C14_StabilityScore ==
    IsStability =>
      /\ op.response >= 0 /\ op.response <= 100
      /\ HasUnstablePair(op.request) =>
           \A g \in StabilityInputs :
              (FunctionsOf(g) = FunctionsOf(op.request) /\ ~HasUnstablePair(g))
              => predict_stability(g) = op.response + 20

\* A list with vitamin_c, retinol and a second active was scored: the list
\* without retinol has the same functions present.
C14_Witness ==
    /\ IsStability
    /\ HasUnstablePair(op.request)
    /\ \E f \in Range(op.request) : f.ingredient_id = "hyaluronic_acid"
    /\ op.response = 55

\* C15: the ingredient list generate_formulation returns holds no ingredient
\* id twice.
C15_NoDuplicateIds ==
    (IsGenerate /\ op.response.raised = "")
    => \A i, j \in DOMAIN op.response.ingredients :
          i # j => op.response.ingredients[i].ingredient_id
                      # op.response.ingredients[j].ingredient_id

\* C16: every stored ingredient with both bounds set has
\* max_concentration >= min_concentration: the Ingredient constructor rejects
\* any other record.
C16_MaxAtLeastMin ==
    \A i \in DOMAIN ingredients :
       (ingredients[i].max_concentration # None
          /\ ingredients[i].min_concentration # None)
       => ingredients[i].max_concentration >= ingredients[i].min_concentration

----------------------------------------------------------------------------
\* More properties of check_compliance

\* The payload entries whose ingredient is stored, restricted in the EU and
\* named name; prohibited ones are left out when only_restricted.
RestrictedEntries(name, only_restricted) ==
    {i \in DOMAIN op.request :
        /\ Found(StoredOf(op.request[i]))
        /\ StoredOf(op.request[i]).name = name
        /\ StoredOf(op.request[i]).restricted_in_eu
        /\ only_restricted => ~StoredOf(op.request[i]).prohibited_in_eu}

\* The warnings of the response that name name.
WarningsNaming(name) ==
    {k \in DOMAIN op.response.warnings : op.response.warnings[k] = name}

\* No stored entry of the payload is prohibited or above a maximum that is
\* set and not 0.
OnlyRestrictedFindings ==
    \A i \in DOMAIN op.request :
       Found(StoredOf(op.request[i])) =>
          /\ ~StoredOf(op.request[i]).prohibited_in_eu
          /\ ~exceeds_limit(StoredOf(op.request[i]), op.request[i].concentration)

\* C17: check_compliance adds one warning for each entry whose ingredient is
\* restricted and not prohibited, and none for any other entry; the
\* restricted flag adds no issue: a payload whose only findings are
\* restricted ingredients within their maximum is compliant, with no issue.
C17_RestrictedWarnsOnly ==
    IsCompliance =>
      /\ \A ing \in Range(ingredients) :
            Cardinality(WarningsNaming(ing.name))
               = Cardinality(RestrictedEntries(ing.name, TRUE))
      /\ OnlyRestrictedFindings
            => op.response.issues = <<>> /\ op.response.overall_status = "compliant"

----------------------------------------------------------------------------
\* Concurrent calls of the engine.  Every await of generate_formulation is
\* on a coroutine of the in-memory DatabaseManager or of the engine itself,
\* so the event loop may switch to another call, at the earliest, where one
\* of these awaits is: the steps below are the stretches of
\* generate_formulation between its stages, and every interleaving of the
\* steps of two calls is allowed.

\* How many generate_formulation calls are in flight at once.
MaxCallers == 2

Callers == 1..MaxCallers

\* The repository the concurrent calls run over.
shared_ingredients == default_ingredients \o more_ingredients

shared_templates == default_templates \o more_templates

\* The requests of the concurrent calls: some are answered with a
\* formulation, one raises in the fill stage.
ConcurrentRequests ==
    {r \in Requests :
        /\ r.target_properties = {}
        /\ \/ r.product_type = "serum" /\ r.required_ingredients = <<"hyaluronic_acid">>
              /\ r.excluded_ingredients = AllIds
           \/ r.product_type = "cream" /\ r.required_ingredients = <<"vitamin_c", "niacinamide">>
              /\ r.excluded_ingredients = AllIds
           \/ r.product_type = "toner" /\ r.required_ingredients = <<>>
              /\ r.excluded_ingredients = <<>>
           \/ r.product_type = "serum" /\ r.required_ingredients = <<>>
              /\ r.excluded_ingredients = <<>>}

\* The payloads of the compliance checks made meanwhile.
ConcurrentPayloads ==
    {p \in Payloads : Len(p) = 1 /\ p[1].concentration = H(200)
                      /\ p[1].ingredient_id = "hydroquinone"}

Idle == [pc |-> "idle"]

\* A faulty start of generate_formulation: the base ingredients are popped
\* off the template's own list while they are read.
GenerateStart_pops(c, request) ==
    /\ calls[c] = Idle
    /\ calls' = [calls EXCEPT ![c] =
                    [pc |-> "required", request |-> request,
                     acc |-> seed_step(ingredients, templates, request)]]
    /\ templates' = [i \in DOMAIN templates |->
                       IF templates[i].product_type = request.product_type
                          /\ \A j \in 1..(i - 1) :
                                templates[j].product_type # request.product_type
                       THEN [templates[i] EXCEPT !.base_ingredients = <<>>]
                       ELSE templates[i]]
    /\ UNCHANGED <<ingredients, ingredients_file, ingredients_file_status, saves, uuids, op>>

\* Lines 68-89 of generate_formulation: the template and step 1.
GenerateStart(c, request) ==
    /\ calls[c] = Idle
    /\ calls' = [calls EXCEPT ![c] =
                    [pc |-> "required", request |-> request,
                     acc |-> seed_step(ingredients, templates, request)]]
    /\ UNCHANGED <<ingredients, templates, ingredients_file, ingredients_file_status, saves, uuids, op>>

\* Lines 91-108 of generate_formulation: step 2.
GenerateRequired(c) ==
    /\ calls[c].pc = "required"
    /\ calls' = [calls EXCEPT ![c].pc = "complementary",
                              ![c].acc = add_required(ingredients, calls[c].request,
                                            calls[c].request.required_ingredients, @)]
    /\ UNCHANGED <<ingredients, templates, ingredients_file, ingredients_file_status, saves, uuids, op>>

\* Lines 110-116 of generate_formulation: step 3.
GenerateComplementary(c) ==
    /\ calls[c].pc = "complementary"
    /\ calls' = [calls EXCEPT ![c].pc = "normalize",
                              ![c].acc = add_complementary(ingredients,
                                            calls[c].request, @)]
    /\ UNCHANGED <<ingredients, templates, ingredients_file, ingredients_file_status, saves, uuids, op>>

\* Lines 118-121 of generate_formulation: step 4.
GenerateNormalize(c) ==
    /\ calls[c].pc = "normalize"
    /\ calls' = [calls EXCEPT ![c].pc = "validate", ![c].acc = normalize_step(@)]
    /\ UNCHANGED <<ingredients, templates, ingredients_file, ingredients_file_status, saves, uuids, op>>

\* Lines 123-145 of generate_formulation: step 5 and the response.
GenerateFinish(c) ==
    /\ calls[c].pc = "validate"
    /\ calls' = [calls EXCEPT ![c] =
                    [pc |-> "done", request |-> calls[c].request,
                     response |-> finish_formulation(ingredients, calls[c].acc)]]
    /\ UNCHANGED <<ingredients, templates, ingredients_file, ingredients_file_status, saves, uuids, op>>

\* The route of main.py sends the response.
GenerateReturn(c) ==
    /\ calls[c].pc = "done"
    /\ calls' = [calls EXCEPT ![c] = Idle]
    /\ UNCHANGED <<ingredients, templates, ingredients_file, ingredients_file_status, saves, uuids, op>>

\* FormulationEngine.optimize_formulation: a fixed response.
optimize_formulation(request) ==
    [raised |-> "", product_type |-> "cream", ingredients |-> <<>>,
     total_percentage |-> H(10000), compliance_status |-> "compliant"]

\* The optimization_target of an OptimizationRequest.
OptimizationTarget == {"cost", "stability", "performance", "naturalness"}

\* The targets of the optimize calls made meanwhile.
ConcurrentTargets == {"cost"}

\* POST /optimize
OptimizeFormulation(request) ==
    /\ op = NoOp
    /\ op' = [name |-> "optimize_formulation", request |-> request,
              response |-> optimize_formulation(request)]
    /\ UNCHANGED <<ingredients, templates, ingredients_file, ingredients_file_status, saves, uuids, calls>>

InitConcurrent ==
    /\ ingredients = shared_ingredients
    /\ templates = shared_templates
    /\ ingredients_file = ingredients
    /\ ingredients_file_status = "readable"
    /\ saves = {}
    /\ uuids = 0
    /\ op = NoOp
    /\ calls = [c \in Callers |-> Idle]

NextConcurrent ==
    \/ \E c \in Callers, request \in ConcurrentRequests : GenerateStart(c, request)
    \/ \E c \in Callers : GenerateRequired(c)
    \/ \E c \in Callers : GenerateComplementary(c)
    \/ \E c \in Callers : GenerateNormalize(c)
    \/ \E c \in Callers : GenerateFinish(c)
    \/ \E c \in Callers : GenerateReturn(c)
    \/ op = NoOp /\ \E formulation_data \in ConcurrentPayloads :
                       CheckCompliance(formulation_data)
    \/ op = NoOp /\ \E target \in ConcurrentTargets :
                       OptimizeFormulation([optimization_target |-> target])
    \/ Reply

SpecConcurrent == InitConcurrent /\ [][NextConcurrent]_vars

\* C18: no step of generate_formulation, check_compliance or
\* optimize_formulation changes the repository's collections or its file, and
\* a generate_formulation call that ran interleaved with others returns the
\* ingredient list it returns when it runs alone.
C18_EngineLeavesRepository ==
    [][/\ ingredients' = ingredients
       /\ templates' = templates
       /\ ingredients_file' = ingredients_file
       /\ \A c \in Callers :
             calls'[c].pc = "done"
             => calls'[c].response.ingredients
                  = generate_formulation(shared_ingredients, shared_templates,
                                         calls'[c].request).ingredients]_vars

\* Two calls for different requests were in flight together, one finished
\* with a formulation while the other was between its stages.
C18_Witness ==
    /\ calls[1].pc = "done"
    /\ calls[1].response.raised = ""
    /\ calls[1].response.ingredients # <<>>
    /\ calls[2].pc \in {"required", "complementary", "normalize", "validate"}
    /\ calls[2].request # calls[1].request

----------------------------------------------------------------------------
\* Properties of the lookups and of _validate_formulation

IsValidate == op.name = "validate_formulation"

IsCost == op.name = "calculate_cost"

Stored(id) == Found(get_ingredient_by_id(ingredients, id))

\* A list of entries without those whose ingredient the repository does
\* not hold.
StoredEntries(entries) == SelectSeq(entries, LAMBDA e : Stored(e.ingredient_id))

\* The templates without the base ingredients the repository does not hold.
StoredTemplates ==
    [i \in DOMAIN templates |->
        [templates[i] EXCEPT !.base_ingredients = StoredEntries(@)]]

\* A request without the required ingredients the repository does not hold.
StoredRequest(request) ==
    [request EXCEPT !.required_ingredients = SelectSeq(@, LAMBDA id : Stored(id))]

\* C19: an ingredient id the repository does not hold is skipped wherever
\* it is looked up: generate_formulation, check_compliance,
\* _validate_formulation and _calculate_cost each return what they return
\* when the id is not listed (in the template, among the required
\* ingredients, in the list, in the payload).
C19_AbsentIdSkipped ==
    /\ IsGenerate =>
          op.response = generate_formulation(ingredients, StoredTemplates,
                                             StoredRequest(op.request))
    /\ IsCompliance =>
          op.response = check_compliance(ingredients, StoredEntries(op.request))
    /\ IsValidate =>
          op.response = validate_formulation(ingredients, StoredEntries(op.request))
    /\ IsCost =>
          op.response = calculate_cost(ingredients, StoredEntries(op.request))

\* C20: every entry _validate_formulation retains whose stored ingredient
\* has both bounds set lies within them when min <= max (bounds of 0
\* included), and is at min when min > max.
C20_ValidatedWithinBounds ==
    IsValidate =>
      \A f \in Range(op.response) :
         LET ing == get_ingredient_by_id(ingredients, f.ingredient_id)
         IN  (ing.max_concentration # None /\ ing.min_concentration # None)
             => IF ing.min_concentration <= ing.max_concentration
                THEN /\ ing.min_concentration <= f.concentration
                     /\ f.concentration <= ing.max_concentration
                ELSE f.concentration = ing.min_concentration

----------------------------------------------------------------------------
\* Properties of the compatibility check

\* b is listed as incompatible under a's row of the compatibility table.
IncompatibleUnder(a, b) ==
    /\ a \in DOMAIN compatibility_matrix
    /\ b \in Range(compatibility_matrix[a].incompatible)

\* No entry of the list is listed as incompatible under another entry's id.
NoIncompatiblePair(formulation) ==
    \A a, b \in Range(formulation) :
       ~IncompatibleUnder(a.ingredient_id, b.ingredient_id)

\* How many entries of a list carry the id.
EntriesOf(formulation, id) ==
    Cardinality({i \in DOMAIN formulation : formulation[i].ingredient_id = id})

\* C21: the list _validate_formulation returns, and so the list
\* generate_formulation returns, holds no entry listed as incompatible under
\* another entry's id, and every stored entry whose id has no row in the
\* table is retained.
C21_NoIncompatiblePairRetained ==
    /\ IsValidate =>
          /\ NoIncompatiblePair(op.response)
          /\ \A f \in Range(op.request) :
                (Stored(f.ingredient_id)
                   /\ f.ingredient_id \notin DOMAIN compatibility_matrix)
                => EntriesOf(op.response, f.ingredient_id)
                      = EntriesOf(op.request, f.ingredient_id)
    /\ (IsGenerate /\ op.response.raised = "")
          => NoIncompatiblePair(op.response.ingredients)

\* A list with retinol, vitamin_c and an ingredient without a row was
\* validated: retinol was dropped, the other two were retained.
C21_Witness ==
    /\ IsValidate
    /\ EntriesOf(op.request, "retinol") = 1
    /\ EntriesOf(op.request, "vitamin_c") = 1
    /\ EntriesOf(op.request, "squalane") = 1
    /\ EntriesOf(op.response, "retinol") = 0
    /\ EntriesOf(op.response, "vitamin_c") = 1
    /\ EntriesOf(op.response, "squalane") = 1


-----------------------------------------------------------------------------
\* Properties of the greedy pass of the fill stage

IsFill == op.name = "select_top"

RECURSIVE SumFirst(_, _)
\* The sum of the concentrations of the first k entries of a list.
SumFirst(formulation, k) ==
    IF k = 0 THEN 0
    ELSE SumFirst(formulation, k - 1) + formulation[k].concentration

\* What remained of the budget when the k-th admitted candidate was examined.
RemainingBefore(k) ==
    op.request.remaining_percentage - SumFirst(op.response, k - 1)

\* C22: the greedy pass admits a candidate only with a concentration above
\* zero and at most what remains at that moment, and only while more than
\* 0.1 remains; what remains never becomes negative, and the running total
\* (99 less the budget before the pass) stays at most 99 after it.
C22_FillWithinBudget ==
    IsFill =>
       /\ \A k \in DOMAIN op.response :
             /\ op.response[k].concentration > 0
             /\ op.response[k].concentration <= RemainingBefore(k)
             /\ RemainingBefore(k) > H(10)
       /\ \A k \in 1..(Len(op.response) + 1) : RemainingBefore(k) >= 0
       /\ (H(9900) - op.request.remaining_percentage)
             + SumFirst(op.response, Len(op.response)) <= H(9900)

\* A pass that turns down the first candidate, whose concentration exceeds
\* what remains, and admits the second.
C22_Witness ==
    /\ IsFill
    /\ op.request.remaining_percentage = H(100)
    /\ Len(op.request.scored) = 2
    /\ op.request.scored[1].ingredient.id = "sodium_benzoate"
    /\ op.request.scored[2].ingredient.id = "hyaluronic_acid"
    /\ Len(op.response) = 1
    /\ op.response[1].ingredient_id = "hyaluronic_acid"
    /\ op.response[1].concentration = H(40)

-----------------------------------------------------------------------------
\* Properties of the scorer

IsScore == op.name = "score_ingredient_for_request"

\* C23: scoring a candidate returns a strictly positive number, the base
\* priority of its function times the multipliers that apply, so that no
\* candidate is excluded by its score.
C23_ScorePositive ==
    IsScore =>
       /\ op.response.raised = ""
       /\ op.response.score > 0
       /\ op.response.score =
             score_multipliers(base_priority(op.request.ingredient.function),
                               op.request.ingredient, op.request.request,
                               op.request.used_functions)

-----------------------------------------------------------------------------
\* Properties of the function-based policy of _calculate_optimal_concentration

\* min(effective max, 0.8 * (100 - current_total)) of the call in op.
CappedMax ==
    Min(Or(op.ingredient.max_concentration, H(500)), BudgetCap(op.current_total))

\* The effective minimum of the ingredient of the call in op.
EffectiveMin == Or(op.ingredient.min_concentration, H(1))

\* The share of the capped maximum an active is given.
ActiveShare == IF performance_priority(op.request) THEN 8 ELSE 5

\* The ceiling an emulsifier is given for the product type of the request.
EmulsifierCeiling ==
    CASE op.request.product_type = "cream" -> H(300)
      [] op.request.product_type = "lotion" -> H(200)
      [] OTHER -> H(100)

\* The function of the ingredient is none of active, preservative, emulsifier.
OtherFunction ==
    op.ingredient.function \notin {"active", "preservative", "emulsifier"}

\* C24 as stated: an active is given 0.8 (0.5 without performance_priority)
\* of the capped maximum, an emulsifier the smaller of the capped maximum and
\* the ceiling of the product type, and every other function but the
\* preservative the midpoint of the minimum and the capped maximum, whatever
\* the bounds.
C24_PolicyValues ==
    IsCalculate =>
       /\ op.ingredient.function = "active"
             => op.response = Times(CappedMax, ActiveShare)
       /\ op.ingredient.function = "emulsifier"
             => op.response = Min(CappedMax, EmulsifierCeiling)
       /\ OtherFunction
             => op.response = (EffectiveMin + CappedMax) \div 2

\* C24, amended: an active is given the smaller of the capped maximum and
\* its share of it, an emulsifier the smaller of the capped maximum and the
\* ceiling of the product type, and every other function but the
\* preservative the smaller of the capped maximum and the midpoint.
C24_PolicyValuesCapped ==
    IsCalculate =>
       /\ op.ingredient.function = "active"
             => op.response = Min(CappedMax, Times(CappedMax, ActiveShare))
       /\ op.ingredient.function = "emulsifier"
             => op.response = Min(CappedMax, EmulsifierCeiling)
       /\ OtherFunction
             => op.response = Min(CappedMax, (EffectiveMin + CappedMax) \div 2)

\* A solvent whose minimum exceeds the capped maximum was given the capped
\* maximum, which is not the midpoint.
C24_Witness ==
    /\ IsCalculate
    /\ OtherFunction
    /\ EffectiveMin > CappedMax
    /\ CappedMax >= 0
    /\ op.response = CappedMax
    /\ op.response # (EffectiveMin + CappedMax) \div 2

-----------------------------------------------------------------------------
\* Properties of the response of generate_formulation

\* C25: no entry of the list generate_formulation returns carries an id the
\* request excludes, whichever step added it.
C25_ExcludedNeverReturned ==
    (IsGenerate /\ op.response.raised = "") =>
       \A f \in Range(op.response.ingredients) :
          f.ingredient_id \notin Range(op.request.excluded_ingredients)

\* The compliance payload that carries the entries of a returned list.
PayloadOf(formulation) ==
    [i \in DOMAIN formulation |->
        [ingredient_id |-> formulation[i].ingredient_id,
         concentration |-> formulation[i].concentration]]

\* C26: the compliance_status of a response of generate_formulation is the
\* overall_status check_compliance returns for the returned list; a list
\* with a prohibited ingredient is not reported compliant.
C26_StatusAgreesWithCheck ==
    (IsGenerate /\ op.response.raised = "") =>
       /\ op.response.compliance_status =
             check_compliance(ingredients,
                              PayloadOf(op.response.ingredients)).overall_status
       /\ (\E f \in Range(op.response.ingredients) :
              /\ Stored(f.ingredient_id)
              /\ get_ingredient_by_id(ingredients, f.ingredient_id).prohibited_in_eu)
             => op.response.compliance_status # "compliant"

-----------------------------------------------------------------------------
\* Properties of validation over incompatible entries

\* Two ids each listed as incompatible under the other.
MutuallyIncompatible(a, b) == IncompatibleUnder(a, b) /\ IncompatibleUnder(b, a)

\* C27: of two stored entries that are incompatible with each other, such
\* as vitamin_c and niacinamide, _validate_formulation retains at least one.
C27_OneOfPairRetained ==
    IsValidate =>
       \A f, g \in Range(op.request) :
          (/\ Stored(f.ingredient_id) /\ Stored(g.ingredient_id)
           /\ MutuallyIncompatible(f.ingredient_id, g.ingredient_id))
          => \E h \in Range(op.response) :
                h.ingredient_id \in {f.ingredient_id, g.ingredient_id}

\* The ids of the entries of a list.
IdsOf(formulation) == {f.ingredient_id : f \in Range(formulation)}

\* C28: every response of generate_formulation has a stability score of at
\* least 7.0: validation drops retinol whenever vitamin_c is listed, so the
\* returned list never holds both and the deduction never applies.
C28_StabilityAtLeastSeven ==
    (IsGenerate /\ op.response.raised = "") =>
       /\ op.response.stability_score >= 70
       /\ ~({"vitamin_c", "retinol"} \subseteq IdsOf(op.response.ingredients))

\* A request that requires both vitamin_c and retinol was answered with a
\* list that holds vitamin_c and not retinol.
C28_Witness ==
    /\ IsGenerate
    /\ op.response.raised = ""
    /\ op.request.required_ingredients = <<"vitamin_c", "retinol">>
    /\ Stored("retinol")
    /\ "vitamin_c" \in IdsOf(op.response.ingredients)
    /\ "retinol" \notin IdsOf(op.response.ingredients)
    /\ op.response.stability_score >= 70

-----------------------------------------------------------------------------
\* Properties of the ingredients file

\* C29: once every save the add_ingredient calls started has completed, in
\* whatever order their steps ran, the ingredients file holds exactly the
\* in-memory ingredients.
C29_FileMatchesMemoryWhenQuiet ==
    saves = {} => ingredients_file = ingredients

-----------------------------------------------------------------------------
\* database.py: initialize; main.py: lifespan

\* What ingredients.json can be when the application starts: absent, not
\* loadable (not JSON, or an entry Ingredient rejects), the empty object, or
\* the collection an earlier run saved.
PersistedFiles ==
    { [status |-> "absent", data |-> <<>>],
      [status |-> "unreadable", data |-> <<>>],
      [status |-> "readable", data |-> <<>>],
      [status |-> "readable", data |-> SubSeq(default_ingredients, 1, 1)],
      [status |-> "readable", data |-> default_ingredients],
      [status |-> "readable", data |-> default_ingredients \o more_ingredients] }

\* What formulary.json can be when the application starts.
FormularyFiles ==
    { [status |-> "absent", data |-> <<>>],
      [status |-> "readable", data |-> default_templates \o more_templates] }

\* DatabaseManager._load_ingredients, as the value of self.ingredients it
\* leaves: the entries of a file that exists and loads; nothing when the
\* file is absent, and nothing when loading raises.
load_ingredients(status, data) ==
    IF status = "readable" THEN data ELSE <<>>

\* DatabaseManager._load_templates, likewise.
load_templates(formulary) ==
    IF formulary.status = "readable" THEN formulary.data ELSE <<>>

\* The DatabaseManager is constructed and initialize has not run.
Constructed == [name |-> "constructed"]

\* DatabaseManager.initialize, awaited by lifespan before any request is
\* served: the files are loaded, and each collection that is empty after
\* the load is replaced by its defaults, which are saved.
Initialize(formulary) ==
    /\ op = Constructed
    /\ LET loaded == load_ingredients(ingredients_file_status, ingredients_file)
       IN  IF loaded = <<>>
           THEN /\ ingredients' = default_ingredients
                /\ ingredients_file' = default_ingredients
                /\ ingredients_file_status' = "readable"
           ELSE /\ ingredients' = loaded
                /\ UNCHANGED <<ingredients_file, ingredients_file_status>>
    /\ templates' = IF load_templates(formulary) = <<>>
                    THEN default_templates ELSE load_templates(formulary)
    /\ op' = [name |-> "initialize"]
    /\ UNCHANGED <<saves, uuids, calls>>

\* The ingredients the routes are asked to add after the start.
StartupAdds ==
    {d \in IngredientAdds : d.inci_name \in {Chars_Retinol, Chars_Squalane}}

\* The state after DatabaseManager.__init__, for every ingredients.json the
\* data path can hold.
InitStartup ==
    /\ ingredients = <<>>
    /\ templates = <<>>
    /\ \E file \in PersistedFiles :
          /\ ingredients_file = file.data
          /\ ingredients_file_status = file.status
    /\ saves = {}
    /\ uuids = 0
    /\ op = Constructed
    /\ calls = <<>>

NextStartup ==
    \/ \E formulary \in FormularyFiles : Initialize(formulary)
    \/ op # Constructed /\ \E d \in StartupAdds : AddIngredient(d)
    \/ \E s \in saves : SaveOpen(s)
    \/ \E s \in saves : SaveWrite(s)

SpecStartup == InitStartup /\ [][NextStartup]_vars

-----------------------------------------------------------------------------
\* Properties of initialize

\* C30: initialize seeds the defaults and writes the default file only when
\* no ingredients file is persisted; a file that exists, be it empty or not
\* loadable, is left as it is and only what it holds is in memory.
C30_SeedsOnlyOnFirstRun ==
    [][op = Constructed =>
          IF ingredients_file_status = "absent"
          THEN /\ ingredients' = default_ingredients
               /\ ingredients_file' = default_ingredients
               /\ ingredients_file_status' = "readable"
          ELSE /\ ingredients_file' = ingredients_file
               /\ ingredients_file_status' = ingredients_file_status
               /\ ingredients' = load_ingredients(ingredients_file_status,
                                                  ingredients_file)]_vars
====
